---------------------------- MODULE Spec2Model ----------------------------
(***************************************************************************)
(* Model of notebooks/info_catastrophe_nb.py: the three closed-form        *)
(* evaluators (bits_estimation, power_requirement, mass_energy_equivalent) *)
(* and the two plotting cells that sweep them over `years` and             *)
(* `growth_rates`.                                                         *)
(*                                                                         *)
(* Numbers.  A Python float / numpy float64 is modelled as a decimal       *)
(* floating-point number  m * 10^e  with an 8-digit significand            *)
(* (10^7 <= m < 10^8, results truncated) and the exponent range of an IEEE *)
(* double: a result of 2^1024 ~ 1.7976931e308 or more is out of range.     *)
(* What Python does with an out-of-range result depends on the operation   *)
(* and is modelled per operation: float ** int raises OverflowError,       *)
(* float * float and numpy arithmetic give inf, float / 0.0 raises         *)
(* ZeroDivisionError, numpy float64 / 0.0 gives inf (or nan for 0/0).      *)
(* A raised exception is carried as a value of kind "OverflowError" or     *)
(* "ZeroDivisionError" that every later operation of the expression        *)
(* passes on, which is how the exception leaves the expression.            *)
(* Only non-negative operands occur (f >= 0, so (f+1)^k >= 1).             *)
(***************************************************************************)
EXTENDS Integers, Sequences, FiniteSets, TLC

VARIABLES pc, fi, comp, bits, power, ax, ax0, ax1, args, ret

vars == <<pc, fi, comp, bits, power, ax, ax0, ax1, args, ret>>

sweepVars == <<pc, fi, comp, bits, power, ax, ax0, ax1>>

evalVars == <<args, ret>>

-----------------------------------------------------------------------------
(* Floating-point values *)

Fl(k, m, e) == [k |-> k, m |-> m, e |-> e]

Fin(m, e) == Fl("fin", m, e)

Zero == Fl("zero", 0, 0)

Inf == Fl("inf", 0, 0)

NaN == Fl("nan", 0, 0)

RaiseOverflow == Fl("OverflowError", 0, 0)

RaiseZeroDivision == Fl("ZeroDivisionError", 0, 0)

IsRaise(x) == x.k \in {"OverflowError", "ZeroDivisionError"}

\* the significand brought back to 8 digits, truncating
RECURSIVE Normalise(_, _)
Normalise(m, e) ==
    IF m = 0 THEN Zero
    ELSE IF m >= 10^8 THEN Normalise(m \div 10, e + 1)
    ELSE IF m < 10^7 THEN Normalise(m * 10, e - 1)
    ELSE Fin(m, e)

\* a decimal literal of the source, digits * 10^exp
Dec(digits, exp) == Normalise(digits, exp)

\* 2^1024 = 1.7976931e308 is the first value beyond the double range
OutOfRange(x) == x.k = "fin" /\ (x.e > 301 \/ (x.e = 301 /\ x.m >= 17976931))

\* below the smallest normal double, 2.2250738e-308, a result is flushed to 0
Underflows(x) == x.k = "fin" /\ (x.e < -315 \/ (x.e = -315 /\ x.m < 22250738))

\* an arithmetic result that leaves the double range becomes inf (or 0.0)
Ranged(x) == IF OutOfRange(x) THEN Inf ELSE IF Underflows(x) THEN Zero ELSE x

\* the product of two 8-digit significands, cut to 8 digits, by 4-digit halves
MulFin(a, b) ==
    LET a1 == a.m \div 10^4
        a0 == a.m % 10^4
        b1 == b.m \div 10^4
        b0 == b.m % 10^4
        t  == a1 * b0 + a0 * b1 + ((a0 * b0) \div 10^4)
        q8 == a1 * b1 + (t \div 10^4)
    IN  IF q8 >= 10^7
        THEN Fin(q8, a.e + b.e + 8)
        ELSE Fin(q8 * 10 + ((t % 10^4) \div 10^3), a.e + b.e + 7)

\* a * b of two floats: overflow gives inf, no exception
FMul(a, b) ==
    IF IsRaise(a) THEN a
    ELSE IF IsRaise(b) THEN b
    ELSE IF a.k = "nan" \/ b.k = "nan" THEN NaN
    ELSE IF a.k = "inf" \/ b.k = "inf"
         THEN (IF a.k = "zero" \/ b.k = "zero" THEN NaN ELSE Inf)
    ELSE IF a.k = "zero" \/ b.k = "zero" THEN Zero
    ELSE Ranged(MulFin(a, b))

\* long division of significands: k more digits of r / d appended to q
RECURSIVE DivDigits(_, _, _, _)
DivDigits(q, r, d, k) ==
    IF k = 0 THEN q
    ELSE DivDigits(q * 10 + ((r * 10) \div d), (r * 10) % d, d, k - 1)

DivFin(a, b) ==
    IF a.m >= b.m
    THEN Fin(DivDigits(a.m \div b.m, a.m % b.m, b.m, 7), a.e - b.e - 7)
    ELSE Fin(DivDigits(0, a.m, b.m, 8), a.e - b.e - 8)

\* a / b with a zero divisor handled by the caller
DivNonZero(a, b) ==
    IF a.k = "nan" \/ b.k = "nan" THEN NaN
    ELSE IF a.k = "inf" THEN (IF b.k = "inf" THEN NaN ELSE Inf)
    ELSE IF b.k = "inf" \/ a.k = "zero" THEN Zero
    ELSE Ranged(DivFin(a, b))

\* a / b of Python floats: float division by zero raises ZeroDivisionError
FDiv(a, b) ==
    IF IsRaise(a) THEN a
    ELSE IF IsRaise(b) THEN b
    ELSE IF b.k = "zero" THEN RaiseZeroDivision
    ELSE DivNonZero(a, b)

\* a / b with a numpy float64 operand: division by zero warns and gives inf
\* (nan for 0/0 and nan/0)
NpDiv(a, b) ==
    IF IsRaise(a) THEN a
    ELSE IF IsRaise(b) THEN b
    ELSE IF b.k = "zero"
         THEN (IF a.k \in {"zero", "nan"} THEN NaN ELSE Inf)
    ELSE DivNonZero(a, b)

\* a + b, for a, b >= 0
FAdd(a, b) ==
    IF IsRaise(a) THEN a
    ELSE IF IsRaise(b) THEN b
    ELSE IF a.k = "nan" \/ b.k = "nan" THEN NaN
    ELSE IF a.k = "inf" \/ b.k = "inf" THEN Inf
    ELSE IF a.k = "zero" THEN b
    ELSE IF b.k = "zero" THEN a
    ELSE LET hi == IF a.e >= b.e THEN a ELSE b
             lo == IF a.e >= b.e THEN b ELSE a
             d  == hi.e - lo.e
         IN  IF d > 8 THEN hi
             ELSE Ranged(Normalise(hi.m + (lo.m \div 10^d), hi.e))

\* a - b, for a >= b >= 0 (the only case of the source: (f + 1)**k - 1)
FSub(a, b) ==
    IF IsRaise(a) THEN a
    ELSE IF IsRaise(b) THEN b
    ELSE IF a.k = "nan" \/ b.k = "nan" THEN NaN
    ELSE IF a.k = "inf" THEN (IF b.k = "inf" THEN NaN ELSE Inf)
    ELSE IF b.k = "zero" THEN a
    ELSE LET d == a.e - b.e
         IN  IF d > 8 THEN a
             ELSE Normalise(a.m - (b.m \div 10^d), a.e)

\* a < b for non-negative finite floats and zero
FLess(a, b) ==
    IF a.k = "zero" THEN b.k = "fin"
    ELSE b.k = "fin" /\ (a.e < b.e \/ (a.e = b.e /\ a.m < b.m))

One == Dec(1, 0)

\* x^n by squaring, every product cut to 8 digits; inf once out of range
RECURSIVE PowSq(_, _)
PowSq(x, n) ==
    IF n = 0 THEN One
    ELSE LET h  == PowSq(x, n \div 2)
             sq == FMul(h, h)
         IN  IF n % 2 = 1 THEN FMul(sq, x) ELSE sq

\* x ** n of a Python float and a non-negative int: a result out of the
\* double range raises OverflowError (CPython's float_pow), never inf
PyPow(x, n) ==
    IF IsRaise(x) THEN x
    ELSE LET r == PowSq(x, n)
         IN  IF r.k = "inf" /\ x.k # "inf" THEN RaiseOverflow ELSE r

-----------------------------------------------------------------------------
(* Values on the log10 scale, in units of 10^-4: what the evaluators return *)

LogScale == 10^4

Num(v) == [k |-> "num", v |-> v]

LogInf == [k |-> "inf", v |-> 0]

LogNegInf == [k |-> "-inf", v |-> 0]

LogNaN == [k |-> "nan", v |-> 0]

\* 16 binary digits of log10 of a significand in [1, 10): square, and the
\* digit is 1 when the square reaches 10
RECURSIVE LogBits(_, _, _)
LogBits(m, acc, k) ==
    IF k = 0 THEN acc
    ELSE LET sq == MulFin(Fin(m, 0), Fin(m, 0))
         IN  IF sq.e = 8 THEN LogBits(sq.m, 2 * acc + 1, k - 1)
             ELSE LogBits(sq.m, 2 * acc, k - 1)

\* floor(log10(m / 10^7) * 10^4), up to the last unit
FracLog(m) == (LogBits(m, 0, 16) * LogScale) \div 2^16

\* floor(log10(x) * 10^4) for a finite x > 0
Log10Fin(x) == (x.e + 7) * LogScale + FracLog(x.m)

\* np.log10: -inf at 0 (with a warning), inf at inf, nan at nan
NpLog10(x) ==
    IF x.k = "nan" THEN LogNaN
    ELSE IF x.k = "inf" THEN LogInf
    ELSE IF x.k = "zero" THEN LogNegInf
    ELSE Num(Log10Fin(x))

\* np.log(2) = 0.69314718...
NpLog2 == Dec(69314718, -8)

\* Python's a >= b on returned values: every comparison with nan is False
Ge(a, b) ==
    IF a.k = "nan" \/ b.k = "nan" THEN FALSE
    ELSE IF a.k = "inf" \/ b.k = "-inf" THEN TRUE
    ELSE IF a.k = "-inf" \/ b.k = "inf" THEN FALSE
    ELSE a.v >= b.v

-----------------------------------------------------------------------------
(* The evaluators.  An outcome is the returned value or the exception     *)
(* that leaves the call.                                                   *)

Return(v) == [exc |-> "none", val |-> v]

Raise(name) == [exc |-> name, val |-> LogNaN]

\* try: ...; return np.log10(x)   except OverflowError: return np.nan
TryLog10(x) ==
    IF x.k = "OverflowError" THEN Return(LogNaN)
    ELSE IF IsRaise(x) THEN Raise(x.k)
    ELSE Return(NpLog10(x))

\* default arguments of the three evaluators
N_b_default == Dec(73, 20)

T_default == Dec(300, 0)

\* bits_estimation without its except clause
bits_estimation_uncaught(n, f, N_b) ==
    LET bits_ == FMul(FDiv(N_b, f), FSub(PyPow(FAdd(f, One), n + 1), One))
    IN  IF IsRaise(bits_) THEN Raise(bits_.k) ELSE Return(NpLog10(bits_))

\* bits_estimation dividing by the compounding factor instead of multiplying
bits_estimation_decay(n, f, N_b) ==
    TryLog10(FDiv(FDiv(N_b, f), PyPow(FAdd(f, One), n + 1)))

bits_estimation(n, f, N_b) ==
    LET bits_ == FMul(FDiv(N_b, f), FSub(PyPow(FAdd(f, One), n + 1), One))
    IN  TryLog10(bits_)

k_B == Dec(138064852, -31)

annual_seconds == Dec(3154, 4)

\* energy = N_b * k_B * T * np.log(2) * (f + 1)**(n)
energy(n, f, N_b, T) ==
    FMul(FMul(FMul(FMul(N_b, k_B), T), NpLog2), PyPow(FAdd(f, One), n))

\* power_requirement returning log10 of the energy, not of the power
power_requirement_undivided(n, f, N_b, T) == TryLog10(energy(n, f, N_b, T))

\* power_requirement compounding two years too many
power_requirement_late(n, f, N_b, T) ==
    TryLog10(NpDiv(energy(n + 2, f, N_b, T), annual_seconds))

power_requirement(n, f, N_b, T) ==
    TryLog10(NpDiv(energy(n, f, N_b, T), annual_seconds))

c == Dec(30, 7)

\* m_bit divided by c instead of c**2
m_bit_c(T) == NpDiv(FMul(FMul(k_B, T), NpLog2), c)

m_bit(T) == NpDiv(FMul(FMul(k_B, T), NpLog2), PyPow(c, 2))

\* mass_energy_equivalent without its except clause
mass_energy_equivalent_uncaught(n, f, N_b, T) ==
    LET info_mass == FMul(FMul(N_b, NpDiv(m_bit(T), f)),
                          FSub(PyPow(FAdd(f, One), n + 1), One))
    IN  IF IsRaise(info_mass) THEN Raise(info_mass.k) ELSE Return(NpLog10(info_mass))

mass_energy_equivalent(n, f, N_b, T) ==
    LET info_mass == FMul(FMul(N_b, NpDiv(m_bit(T), f)),
                          FSub(PyPow(FAdd(f, One), n + 1), One))
    IN  TryLog10(info_mass)

-----------------------------------------------------------------------------
(* The configuration cell: years = list(range(1,10001)), growth_rates      *)

RangeStart == 1

RangeStop == 10001

\* the model sweeps every YearStride-th year of range(RangeStart, RangeStop)
YearStride == 249

years ==
    [i \in 1..(((RangeStop - 1 - RangeStart) \div YearStride) + 1) |->
        RangeStart + (i - 1) * YearStride]

growth_rates == <<Dec(1, -2), Dec(5, -2), Dec(2, -1), Dec(5, -1)>>

\* a float < 10^9 rounded to an integer, as the format spec .0f prints it
RoundInt(x) ==
    IF x.k # "fin" \/ x.e < -8 THEN 0
    ELSE IF x.e >= 0 THEN x.m * 10^(x.e)
    ELSE (x.m + 5 * 10^(-x.e - 1)) \div 10^(-x.e)

\* f'{100*f:.0f}%'
PctLabel(f) == ToString(RoundInt(FMul(Dec(100, 0), f))) \o "%"

Line(y, label, linestyle) == [y |-> y, label |-> label, linestyle |-> linestyle]

p_earth == NpLog10(Dec(185, 11))

m_earth == NpLog10(Dec(6, 24))

\* [v for y in years]
Flat(v) == [i \in 1..Len(years) |-> v]

-----------------------------------------------------------------------------
(* The plotting cells, one step per element of a list comprehension.       *)
(* comp is the list a comprehension is building; bits and power are the    *)
(* script's variables; ax, ax0 = ax[0], ax1 = ax[1] hold the plotted lines. *)

SweepInit ==
    /\ pc = "growth"
    /\ fi = 1
    /\ comp = <<>>
    /\ bits = <<>>
    /\ power = <<>>
    /\ ax = <<>>
    /\ ax0 = <<>>
    /\ ax1 = <<>>

\* one more element of a comprehension over years: the evaluator's value is
\* appended, or its exception ends the script
Element(out) ==
    IF out.exc # "none"
    THEN /\ pc' = "error"
         /\ UNCHANGED comp
    ELSE /\ comp' = Append(comp, out.val)
         /\ UNCHANGED pc

\* bits = [bits_estimation(y, f) for y in years], one element
GrowthElement ==
    /\ pc = "growth"
    /\ fi <= Len(growth_rates)
    /\ Len(comp) < Len(years)
    /\ Element(bits_estimation(years[Len(comp) + 1], growth_rates[fi], N_b_default))
    /\ UNCHANGED <<fi, bits, power, ax, ax0, ax1>>

\* the comprehension is complete: bits is bound and ax.plot(years, bits, label)
GrowthPlot ==
    /\ pc = "growth"
    /\ fi <= Len(growth_rates)
    /\ Len(comp) = Len(years)
    /\ bits' = comp
    /\ ax' = Append(ax, Line(comp, PctLabel(growth_rates[fi]), "solid"))
    /\ comp' = <<>>
    /\ fi' = fi + 1
    /\ UNCHANGED <<pc, power, ax0, ax1>>

\* after the loop: titles, scales, plt.show(); the next cell follows
GrowthShow ==
    /\ pc = "growth"
    /\ fi > Len(growth_rates)
    /\ pc' = "refs"
    /\ UNCHANGED <<fi, comp, bits, power, ax, ax0, ax1>>

\* the dashed reference lines of Earth's power (ax[0]) and mass (ax[1])
ReferenceLines ==
    /\ pc = "refs"
    /\ ax0' = Append(ax0, Line(Flat(p_earth), "Earth Power", "dashed"))
    /\ ax1' = Append(ax1, Line(Flat(m_earth), "Earth Mass", "dashed"))
    /\ fi' = 1
    /\ pc' = "mass"
    /\ UNCHANGED <<comp, bits, power, ax>>

\* bits = [mass_energy_equivalent(y, f) for y in years], one element
MassElement ==
    /\ pc = "mass"
    /\ fi <= Len(growth_rates)
    /\ Len(comp) < Len(years)
    /\ Element(mass_energy_equivalent(years[Len(comp) + 1], growth_rates[fi],
                                      N_b_default, T_default))
    /\ UNCHANGED <<fi, bits, power, ax, ax0, ax1>>

\* the mass comprehension is complete and bound to bits
MassBound ==
    /\ pc = "mass"
    /\ fi <= Len(growth_rates)
    /\ Len(comp) = Len(years)
    /\ bits' = comp
    /\ comp' = <<>>
    /\ pc' = "power"
    /\ UNCHANGED <<fi, power, ax, ax0, ax1>>

\* power = [power_requirement(y, f) for y in years], one element
PowerElement ==
    /\ pc = "power"
    /\ Len(comp) < Len(years)
    /\ Element(power_requirement(years[Len(comp) + 1], growth_rates[fi],
                                 N_b_default, T_default))
    /\ UNCHANGED <<fi, bits, power, ax, ax0, ax1>>

\* power is bound; ax[0].plot(years, bits, ...) and ax[1].plot(years, bits, ...)
PowerMassPlot ==
    /\ pc = "power"
    /\ Len(comp) = Len(years)
    /\ power' = comp
    /\ ax0' = Append(ax0, Line(bits, PctLabel(growth_rates[fi]), "solid"))
    /\ ax1' = Append(ax1, Line(bits, PctLabel(growth_rates[fi]), "solid"))
    /\ comp' = <<>>
    /\ fi' = fi + 1
    /\ pc' = "mass"
    /\ UNCHANGED <<bits, ax>>

\* after the loop: titles, scales, legends, plt.show()
PowerMassShow ==
    /\ pc = "mass"
    /\ fi > Len(growth_rates)
    /\ pc' = "done"
    /\ UNCHANGED <<fi, comp, bits, power, ax, ax0, ax1>>

-----------------------------------------------------------------------------
(* Calls of the evaluators with their default N_b and T at two points      *)
(* (n, f): args holds the two points, ret the outcomes per evaluator.      *)

\* the years called with 0 .. MaxSmallYear besides the years around the
\* overflow thresholds of f = 1.0 and f = 0.5 and the last year of the sweep
MaxSmallYear == 3

EvalYears == (0..MaxSmallYear) \cup {1023, 1749, 1750, 1751, RangeStop - 1}

\* the scenarios of growth_rates
Scenarios == {growth_rates[i] : i \in 1..Len(growth_rates)}

\* two rates one step of the significand of f + 1 apart or less (1.0e-7 and
\* 1.9e-7 here, as 2.3e-16 and 3.2e-16 are for a double): f + 1 is the same
\* float for both
TinyRates == {Dec(10, -8), Dec(19, -8)}

\* the rates called with: the scenarios, the ends 0 and 1, and the tiny rates
EvalRates == {Zero, One} \cup TinyRates \cup Scenarios

Point(n, f) == [n |-> n, f |-> f]

Evaluators == {"bits_estimation", "power_requirement", "mass_energy_equivalent"}

Pending == <<>>

EvalIdle ==
    /\ args = <<>>
    /\ ret = [fn \in Evaluators |-> Pending]

\* the two points of a pair are taken in order: by year, then by rate
InOrder(p, q) == p.n < q.n \/ (p.n = q.n /\ ~FLess(q.f, p.f))

EvalInit ==
    /\ \E n1 \in EvalYears, n2 \in EvalYears, f1 \in EvalRates, f2 \in EvalRates :
          /\ InOrder(Point(n1, f1), Point(n2, f2))
          /\ args = <<Point(n1, f1), Point(n2, f2)>>
    /\ ret = [fn \in Evaluators |-> Pending]

CallBits ==
    /\ ret["bits_estimation"] = Pending
    /\ ret' = [ret EXCEPT !["bits_estimation"] =
                 [i \in 1..2 |-> bits_estimation(args[i].n, args[i].f, N_b_default)]]
    /\ UNCHANGED args

CallPower ==
    /\ ret["power_requirement"] = Pending
    /\ ret' = [ret EXCEPT !["power_requirement"] =
                 [i \in 1..2 |-> power_requirement(args[i].n, args[i].f,
                                                   N_b_default, T_default)]]
    /\ UNCHANGED args

CallMass ==
    /\ ret["mass_energy_equivalent"] = Pending
    /\ ret' = [ret EXCEPT !["mass_energy_equivalent"] =
                 [i \in 1..2 |-> mass_energy_equivalent(args[i].n, args[i].f,
                                                        N_b_default, T_default)]]
    /\ UNCHANGED args

-----------------------------------------------------------------------------
(* Specifications *)

Init == SweepInit /\ EvalIdle

Next ==
    \/ GrowthElement /\ UNCHANGED evalVars
    \/ GrowthPlot /\ UNCHANGED evalVars
    \/ GrowthShow /\ UNCHANGED evalVars
    \/ ReferenceLines /\ UNCHANGED evalVars
    \/ MassElement /\ UNCHANGED evalVars
    \/ MassBound /\ UNCHANGED evalVars
    \/ PowerElement /\ UNCHANGED evalVars
    \/ PowerMassPlot /\ UNCHANGED evalVars
    \/ PowerMassShow /\ UNCHANGED evalVars

\* the notebook run from top to bottom
Spec == Init /\ [][Next]_vars

InitEval == SweepInit /\ EvalInit

NextEval ==
    \/ CallBits /\ UNCHANGED sweepVars
    \/ CallPower /\ UNCHANGED sweepVars
    \/ CallMass /\ UNCHANGED sweepVars

\* the evaluators called on their own
SpecEval == InitEval /\ [][NextEval]_vars

-----------------------------------------------------------------------------
(* Properties *)

Called(fn) == ret[fn] # Pending

IsSentinel(out) == out = Return(LogNaN)

\* a growth rate in (0, 1]
ValidRate(f) == f.k = "fin"

\* (f + 1)**k leaves the double range
PowOverflows(f, k) == PyPow(FAdd(f, One), k).k = "OverflowError"

Half == Dec(5, -1)

Pct1 == Dec(1, -2)

\* C1: when the exponentiation (f+1)^(n+1) of bits_estimation and
\* mass_energy_equivalent, or (f+1)^n of power_requirement, leaves the
\* floating-point range, the evaluator returns the sentinel nan and raises
\* nothing; bits_estimation(10000, 0.5) and mass_energy_equivalent(10000, 0.5)
\* return the sentinel.
C1_OverflowReturnsSentinel ==
    \A i \in 1..2 :
        LET n == args[i].n
            f == args[i].f
        IN  ValidRate(f) =>
              /\ Called("bits_estimation") =>
                   /\ PowOverflows(f, n + 1) => IsSentinel(ret["bits_estimation"][i])
                   /\ (n = 10000 /\ f = Half) => IsSentinel(ret["bits_estimation"][i])
              /\ Called("mass_energy_equivalent") =>
                   /\ PowOverflows(f, n + 1) =>
                        IsSentinel(ret["mass_energy_equivalent"][i])
                   /\ (n = 10000 /\ f = Half) =>
                        IsSentinel(ret["mass_energy_equivalent"][i])
              /\ Called("power_requirement") =>
                   (PowOverflows(f, n) => IsSentinel(ret["power_requirement"][i]))

\* bits_estimation and mass_energy_equivalent were called at (10000, 0.5) and
\* returned the sentinel, and power_requirement at a year whose power overflows
C1_Witness ==
    /\ args[1] = Point(1751, Half)
    /\ args[2] = Point(10000, Half)
    /\ Called("bits_estimation") /\ IsSentinel(ret["bits_estimation"][2])
    /\ Called("mass_energy_equivalent") /\ IsSentinel(ret["mass_energy_equivalent"][2])
    /\ Called("power_requirement") /\ IsSentinel(ret["power_requirement"][1])
    /\ PowOverflows(Half, 1751)

\* the series of an evaluator over the whole time domain, for one scenario
GrowthSeries(f) == [i \in 1..Len(years) |-> bits_estimation(years[i], f, N_b_default).val]

MassSeries(f) ==
    [i \in 1..Len(years) |-> mass_energy_equivalent(years[i], f, N_b_default, T_default).val]

PowerSeries(f) ==
    [i \in 1..Len(years) |-> power_requirement(years[i], f, N_b_default, T_default).val]

\* the evaluator whose comprehension is running
Running(y, f) ==
    IF pc = "growth" THEN bits_estimation(y, f, N_b_default)
    ELSE IF pc = "mass" THEN mass_energy_equivalent(y, f, N_b_default, T_default)
    ELSE power_requirement(y, f, N_b_default, T_default)

\* C2: for every model and scenario the sweep runs to completion and gives a
\* series as long as the time domain whose i-th element is the evaluator's
\* result for years[i], sentinels included: a sentinel never aborts or
\* shortens a series.
C2_SeriesAlignedWithYears ==
    /\ pc # "error"
    /\ Len(comp) <= Len(years)
    /\ \A i \in 1..Len(comp) : comp[i] = Running(years[i], growth_rates[fi]).val
    /\ \A j \in 1..Len(ax) : Len(ax[j].y) = Len(years)
    /\ (pc = "growth" /\ comp = <<>> /\ fi > 1) =>
          /\ bits = GrowthSeries(growth_rates[fi - 1])
          /\ ax[fi - 1].y = bits
    /\ (pc = "power" /\ comp = <<>>) => bits = MassSeries(growth_rates[fi])
    /\ (pc \in {"mass", "done"} /\ comp = <<>> /\ fi > 1) =>
          /\ bits = MassSeries(growth_rates[fi - 1])
          /\ power = PowerSeries(growth_rates[fi - 1])
    /\ pc = "done" => Len(ax) = Len(growth_rates)

HasSentinel(series) == \E i \in 1..Len(series) : series[i] = LogNaN

\* the run is complete and the last scenario's three series hold sentinels
\* after defined values
C2_Witness ==
    /\ pc = "done"
    /\ HasSentinel(ax[Len(ax)].y) /\ ax[Len(ax)].y[1].k = "num"
    /\ HasSentinel(bits) /\ Len(bits) = Len(years)
    /\ HasSentinel(power) /\ Len(power) = Len(years)

\* C3: every value the evaluators return for n in the time domain and f in
\* (0,1] is a finite real or the sentinel; when the modelled quantity leaves
\* the floating-point range the result is the sentinel, never an infinity.
C3_FiniteOrSentinel ==
    \A fn \in Evaluators : \A i \in 1..2 :
        (Called(fn) /\ ValidRate(args[i].f) /\ args[i].n >= 1) =>
            /\ ret[fn][i].exc = "none"
            /\ ret[fn][i].val.k \in {"num", "nan"}

\* C4: for f = 0 bits_estimation and mass_energy_equivalent apply the same
\* guard: each rejects the input or returns the sentinel, no division-by-zero
\* fault escapes and no ordinary number is returned.
C4_ZeroRateGuarded ==
    \A i \in 1..2 :
        args[i].f = Zero =>
            \A fn \in {"bits_estimation", "mass_energy_equivalent"} :
                Called(fn) =>
                    /\ ret[fn][i].exc # "ZeroDivisionError"
                    /\ ret[fn][i].exc = "ValueError" \/ IsSentinel(ret[fn][i])

\* C5: for every scenario the line on the power chart (the axes with the
\* dashed Earth-power line) is the series of power_requirement and the line
\* on the mass chart (the axes with the dashed Earth-mass line) is the series
\* of mass_energy_equivalent.
C5_ChartsShowOwnSeries ==
    pc = "done" =>
        /\ ax0[1].label = "Earth Power" /\ ax0[1].linestyle = "dashed"
        /\ ax1[1].label = "Earth Mass" /\ ax1[1].linestyle = "dashed"
        /\ Len(ax0) = Len(growth_rates) + 1
        /\ Len(ax1) = Len(growth_rates) + 1
        /\ \A j \in 1..Len(growth_rates) :
              /\ ax0[j + 1].y = PowerSeries(growth_rates[j])
              /\ ax1[j + 1].y = MassSeries(growth_rates[j])

BitsAt(i) == ret["bits_estimation"][i]

\* C6: for every f in (0,1] and years 1 <= n1 <= n2 of the time domain,
\* bits_estimation(n2, f) >= bits_estimation(n1, f).
C6_MonotoneInYear ==
    Called("bits_estimation") =>
        \A i \in 1..2 : \A j \in 1..2 :
            (/\ ValidRate(args[i].f) /\ args[i].f = args[j].f
             /\ 1 <= args[i].n /\ args[i].n <= args[j].n)
            => Ge(BitsAt(j).val, BitsAt(i).val)

\* C6 as amended: for every f in (0,1] and years 1 <= n1 <= n2 of the time
\* domain at which bits_estimation returns a value other than the sentinel,
\* bits_estimation(n2, f) >= bits_estimation(n1, f).
C6_MonotoneInYearWhereDefined ==
    Called("bits_estimation") =>
        \A i \in 1..2 : \A j \in 1..2 :
            (/\ ValidRate(args[i].f) /\ args[i].f = args[j].f
             /\ 1 <= args[i].n /\ args[i].n <= args[j].n
             /\ BitsAt(i).exc = "none" /\ BitsAt(j).exc = "none"
             /\ BitsAt(i).val.k # "nan" /\ BitsAt(j).val.k # "nan")
            => Ge(BitsAt(j).val, BitsAt(i).val)

\* bits_estimation was called at two years of one scenario and returned two
\* finite values, the later one larger
C6_Witness ==
    /\ Called("bits_estimation")
    /\ args[1].f = Pct1 /\ args[2].f = Pct1
    /\ args[1].n = 1 /\ args[2].n = 10000
    /\ BitsAt(1).val.k = "num" /\ BitsAt(2).val.k = "num"
    /\ BitsAt(2).val.v > BitsAt(1).val.v

\* C7: for every year n > 0 of the time domain and growth rates f1 < f2 in
\* (0,1], bits_estimation(n, f2) >= bits_estimation(n, f1).
C7_MonotoneInRate ==
    Called("bits_estimation") =>
        \A i \in 1..2 : \A j \in 1..2 :
            (/\ ValidRate(args[i].f) /\ ValidRate(args[j].f)
             /\ FLess(args[i].f, args[j].f)
             /\ args[i].n = args[j].n /\ args[i].n > 0)
            => Ge(BitsAt(j).val, BitsAt(i).val)

\* C7 as amended: for every year n > 0 of the time domain and growth rates
\* f1 < f2 among the scenarios of growth_rates at which bits_estimation
\* returns a value other than the sentinel,
\* bits_estimation(n, f2) >= bits_estimation(n, f1).
C7_MonotoneInRateWhereDefined ==
    Called("bits_estimation") =>
        \A i \in 1..2 : \A j \in 1..2 :
            (/\ args[i].f \in Scenarios /\ args[j].f \in Scenarios
             /\ FLess(args[i].f, args[j].f)
             /\ args[i].n = args[j].n /\ args[i].n > 0
             /\ BitsAt(i).exc = "none" /\ BitsAt(j).exc = "none"
             /\ BitsAt(i).val.k # "nan" /\ BitsAt(j).val.k # "nan")
            => Ge(BitsAt(j).val, BitsAt(i).val)

\* bits_estimation was called at one year for two scenarios and returned two
\* finite values, the larger one for the faster growth
C7_Witness ==
    /\ Called("bits_estimation")
    /\ args[1].f = Pct1 /\ args[2].f = Half
    /\ args[1].n = 3 /\ args[2].n = 3
    /\ BitsAt(1).val.k = "num" /\ BitsAt(2).val.k = "num"
    /\ BitsAt(2).val.v > BitsAt(1).val.v

Abs(x) == IF x < 0 THEN -x ELSE x

\* log10(k_B * T * ln(2) * N_b / seconds_per_year), computed directly
DirectPowerLog ==
    NpLog10(NpDiv(FMul(FMul(FMul(k_B, T_default), NpLog2), N_b_default), annual_seconds))

PowerAt(i) == ret["power_requirement"][i]

\* C8: power_requirement(n=0, f=0.01, N_b=7.3e21, T=300) returns
\* log10(k_B*T*ln(2)*N_b / seconds_per_year) with the literal constants, and
\* that value is approximately -1.02.
C8_PowerAtYearZero ==
    Called("power_requirement") =>
        \A i \in 1..2 :
            args[i] = Point(0, Pct1) =>
                /\ PowerAt(i).exc = "none" /\ PowerAt(i).val.k = "num"
                /\ Abs(PowerAt(i).val.v - DirectPowerLog.v) <= 1
                /\ Abs(PowerAt(i).val.v - (-10200)) <= 100

\* C8 as amended: power_requirement(n=0, f=0.01, N_b=7.3e21, T=300) returns
\* log10(k_B*T*ln(2)*N_b / seconds_per_year) with the literal constants, and
\* that value is approximately -6.18.
C8_PowerAtYearZeroValue ==
    Called("power_requirement") =>
        \A i \in 1..2 :
            args[i] = Point(0, Pct1) =>
                /\ PowerAt(i).exc = "none" /\ PowerAt(i).val.k = "num"
                /\ Abs(PowerAt(i).val.v - DirectPowerLog.v) <= 1
                /\ Abs(PowerAt(i).val.v - (-61800)) <= 100

\* power_requirement was called at (0, 0.01) and returned a number
C8_Witness ==
    /\ args[1] = Point(0, Pct1)
    /\ Called("power_requirement")
    /\ PowerAt(1).val.k = "num"
    /\ DirectPowerLog.k = "num"

\* the least 5-digit significand whose log10 reaches frac, by bisection
RECURSIVE Bisect(_, _, _)
Bisect(lo, hi, frac) ==
    IF hi - lo <= 1 THEN hi
    ELSE LET mid == (lo + hi) \div 2
         IN  IF FracLog(mid * 10^3) >= frac THEN Bisect(lo, mid, frac)
             ELSE Bisect(mid, hi, frac)

\* 10 ** v for a returned value v
Exp10(v) ==
    IF v.k = "nan" THEN NaN
    ELSE IF v.k = "inf" THEN Inf
    ELSE IF v.k = "-inf" THEN Zero
    ELSE LET frac == v.v % LogScale
             e    == (v.v - frac) \div LogScale
         IN  IF frac = 0 THEN Fin(10^7, e - 7)
             ELSE Normalise(Bisect(10^4, 10^5, frac), e - 4)

\* the sum over i = 0..n of the energy of year i
RECURSIVE EnergySum(_, _)
EnergySum(n, f) ==
    IF n = 0 THEN energy(0, f, N_b_default, T_default)
    ELSE FAdd(EnergySum(n - 1, f), energy(n, f, N_b_default, T_default))

\* 10 ** result * c**2 for a result of mass_energy_equivalent
MassAsEnergy(v) == FMul(Exp10(v), PyPow(c, 2))

\* a and b are finite and differ by less than a thousandth of the smaller
Close(a, b) ==
    /\ a.k = "fin" /\ b.k = "fin"
    /\ LET lo == IF FLess(a, b) THEN a ELSE b
           hi == IF FLess(a, b) THEN b ELSE a
       IN  FLess(FMul(FSub(hi, lo), Dec(1000, 0)), lo)

MassAt(i) == ret["mass_energy_equivalent"][i]

\* the points at which the accumulated energy is summed term by term
Summed(i) == ValidRate(args[i].f) /\ args[i].n <= MaxSmallYear

\* the summed points whose rate is a scenario of growth_rates
SummedScenario(i) == args[i].f \in Scenarios /\ args[i].n <= MaxSmallYear

\* C9: where nothing overflows, 10 ** mass_energy_equivalent(n, f) times c^2
\* equals the sum over i = 0..n of the yearly energy N_b*k_B*T*ln(2)*(f+1)^i
\* of power_requirement.
C9_MassEqualsEnergySum ==
    Called("mass_energy_equivalent") =>
        \A i \in 1..2 :
            Summed(i) => MassAsEnergy(MassAt(i).val) = EnergySum(args[i].n, args[i].f)

\* C9 as amended: for the scenarios of growth_rates, where nothing
\* overflows, 10 ** mass_energy_equivalent(n, f) times c^2 agrees with the
\* sum over i = 0..n of the yearly energy of power_requirement to within a
\* relative error of 10^-3.
C9_MassApproximatesEnergySum ==
    Called("mass_energy_equivalent") =>
        \A i \in 1..2 :
            SummedScenario(i) =>
                /\ MassAt(i).exc = "none" /\ MassAt(i).val.k = "num"
                /\ Close(MassAsEnergy(MassAt(i).val), EnergySum(args[i].n, args[i].f))

\* mass_energy_equivalent was called after several years of growth and its
\* mass is close to the summed energy
C9_Witness ==
    /\ Called("mass_energy_equivalent")
    /\ args[1] = Point(MaxSmallYear, Half)
    /\ MassAt(1).val.k = "num"
    /\ Close(MassAsEnergy(MassAt(1).val), EnergySum(MaxSmallYear, Half))

\* C10: for each evaluator and f in (0,1] the sentinel results form a suffix
\* of the sweep (a sentinel at year n means a sentinel at every later year),
\* and power_requirement returns the sentinel at year n only if
\* bits_estimation and mass_energy_equivalent do at year n.
C10_SentinelSuffix ==
    /\ \A fn \in Evaluators :
          Called(fn) =>
              \A i \in 1..2 : \A j \in 1..2 :
                  (/\ ValidRate(args[i].f) /\ args[i].f = args[j].f
                   /\ args[i].n < args[j].n
                   /\ IsSentinel(ret[fn][i]))
                  => IsSentinel(ret[fn][j])
    /\ \A i \in 1..2 :
          (/\ ValidRate(args[i].f)
           /\ Called("power_requirement") /\ IsSentinel(PowerAt(i)))
          => /\ Called("bits_estimation") => IsSentinel(BitsAt(i))
             /\ Called("mass_energy_equivalent") => IsSentinel(MassAt(i))

\* all three evaluators return the sentinel at year 1751 and at the later
\* year 10000 of the 50% scenario, and bits_estimation and
\* mass_energy_equivalent one year before power_requirement does
C10_Witness ==
    /\ args[1] = Point(1751, Half) /\ args[2] = Point(10000, Half)
    /\ \A fn \in Evaluators :
          Called(fn) /\ IsSentinel(ret[fn][1]) /\ IsSentinel(ret[fn][2])
    /\ ~PowOverflows(Half, 1750) /\ PowOverflows(Half, 1751)

=============================================================================
